---- MODULE Spec2Model ----
(***************************************************************************)
(* Terminal lifecycle of mt5-docker: the initialize operation of the       *)
(* request/response adapter (mt5_server.py, _h_initialize behind do_POST)  *)
(* and of the object-RPC adapter (rpyc_server.py, exposed_initialize       *)
(* served by ThreadedServer), run against a stub of the MetaTrader5        *)
(* capability interface.                                                   *)
(*                                                                         *)
(* Python values: None is the empty tuple <<>>, a given value v is <<v>>.  *)
(* LastError is the tuple <<code, message>>.  A terminal_info record is    *)
(* <<trade_allowed>>.  Program positions are named after the source line   *)
(* about to execute.                                                       *)
(***************************************************************************)
EXTENDS Integers, Sequences, FiniteSets, TLC

\* Bounds of the model.
MaxProfiles == 1      \* glob matches of %APPDATA%\...\*\config\accounts.dat
NConn == 2            \* connections (threads) of the object-RPC server
MaxLines == 4         \* lines of a common.ini text
MaxRequests == 2      \* POST requests the HTTP server receives, one after another

VARIABLES
    args,        \* the request: [login, server]
    script,      \* the stub's behaviour: [init, ti], indexed by initialize call
    h_pc,        \* request/response adapter: position in do_POST/_h_initialize
    h_result,    \* local `result`
    h_err,       \* local `err`
    h_trace,     \* lifecycle actions performed, in order
    h_out,       \* responses written by _send_json, in order
    h_calls,     \* initialize calls the adapter's stub has received
    h_lastError, \* the stub's retained LastError (mt5.last_error())
    r_pc,        \* object-RPC adapter, per connection: position in the method
    r_op,        \* per connection: the exposed method being served
    r_result,    \* per connection: local `result`
    r_err,       \* per connection: local `err`
    r_trace,     \* per connection: lifecycle actions performed, in order
    r_ret,       \* per connection: value returned to the caller, "none" before
    r_calls,     \* initialize calls the RPC process's stub has received
    r_lastError, \* the RPC process's stub LastError
    p_args,      \* _prepare_ini: its arguments [login, server]
    p_files,     \* per config location: the text of common.ini (a list of lines)
    p_prev,      \* per config location: the text before the last _prepare_ini call
    p_io,        \* per config location: what the last call's file I/O did
    p_passes,    \* _prepare_ini calls made
    p_raised,    \* whether the last _prepare_ini call raised to its caller
    d_pc,        \* do_POST of the request in progress: position
    d_req,       \* the request in progress: [path, json, fields]
    d_result,    \* what the handler's capability call returned
    d_exc,       \* message of the exception in flight, "" if none
    d_out,       \* responses written for the request in progress
    d_calls,     \* capability calls made for the request in progress
    d_lastError, \* mt5.last_error() of the HTTP server's stub
    d_received,  \* requests received so far
    d_answered,  \* requests for which a response was written
    d_failed     \* whether some earlier request was answered 500

hvars == <<h_pc, h_result, h_err, h_trace, h_out, h_calls, h_lastError>>
rvars == <<r_pc, r_op, r_result, r_err, r_trace, r_ret, r_calls, r_lastError>>
pvars == <<p_args, p_files, p_prev, p_io, p_passes, p_raised>>
dvars == <<d_pc, d_req, d_result, d_exc, d_out, d_calls, d_lastError,
           d_received, d_answered, d_failed>>
vars == <<args, script, hvars, rvars, pvars, dvars>>

Conns == 1..NConn

\* What a step of one adapter leaves alone: the request, the script and the
\* other adapter (a separate process with its own mt5 module).
HFrame == UNCHANGED <<args, script, rvars, pvars, dvars>>
RFrame == UNCHANGED <<args, script, hvars, pvars, dvars>>
PFrame == UNCHANGED <<args, script, hvars, rvars, dvars>>
DFrame == UNCHANGED <<args, script, hvars, rvars, pvars>>

---------------------------------------------------------------------------
\* The capability interface stub and the request.

None == <<>>
Some(v) == <<v>>

Logins == {None, Some(0), Some(123)}
Servers == {None, Some("demo")}

\* `if login or server`: Python truthiness of the two arguments.
TruthyLogin(l) == l # None /\ l[1] # 0
TruthyServer(s) == s # None /\ s[1] # ""

\* mt5.last_error() after a call that succeeded.
NoError == <<1, "Success">>

FailCodes == {-10005, -10003, -6}
ErrMsg(c) ==
    CASE c = -10005 -> "IPC timeout"
      [] c = -10003 -> "IPC initialization failed"
      [] OTHER -> "Authorization failed"

\* What one mt5.initialize call does: its return value and the LastError it leaves.
InitOutcomes ==
    {[ok |-> TRUE, err |-> NoError]}
        \cup {[ok |-> FALSE, err |-> <<c, ErrMsg(c)>>] : c \in FailCodes}

\* What mt5.terminal_info() returns: None or a record with trade_allowed.
TerminalInfos == {None, Some(TRUE), Some(FALSE)}

Scripts == [init : [1..2 -> InitOutcomes], ti : [1..2 -> TerminalInfos]]

\* The stub answers the k-th initialize call by script.init[k]; calls past the
\* script repeat its last entry.
Slot(k) == IF k > 2 THEN 2 ELSE k

\* list(err): a list with the tuple's elements, in order.
ListOf(t) == [i \in 1..Len(t) |-> t[i]]

---------------------------------------------------------------------------
\* Leaves shared by both adapters (the two files define them identically).

DelOutcomes == {"removed", "FileNotFoundError", "PermissionError"}

\* _delete_accounts_dat: os.remove on the fixed path and on every glob match,
\* in order; FileNotFoundError is swallowed, any other error propagates and
\* ends the loop.  outs[i] is what os.remove does on the i-th path.
RECURSIVE DeleteFrom(_, _)
DeleteFrom(outs, i) ==
    IF i > Len(outs) THEN [raised |-> FALSE, attempted |-> Len(outs)]
    ELSE IF outs[i] = "PermissionError" THEN [raised |-> TRUE, attempted |-> i]
    ELSE DeleteFrom(outs, i + 1)

DeleteAccountsDat(outs) == DeleteFrom(outs, 1)

\* The paths of one purge: one fixed path plus 0..MaxProfiles glob matches.
DelRuns == UNION {[1..n -> DelOutcomes] : n \in 1..(1 + MaxProfiles)}

\* subprocess.run(taskkill, timeout=10): every failure is swallowed.
KillOutcomes == {"killed", "failed", "timeout"}

\* A variant that sleeps inside the try block: a taskkill that times out skips
\* the settle wait.
KillTerminal_NoSettle(o) ==
    IF o = "timeout" THEN <<"taskkill">> ELSE <<"taskkill", "sleep3">>

\* _kill_terminal: taskkill, then time.sleep(3), whatever taskkill did.
KillTerminal(o) == <<"taskkill", "sleep3">>

---------------------------------------------------------------------------
\* Request/response adapter: do_POST dispatching POST /initialize.

OkBody == [ok |-> TRUE]
FailBody(err) == [ok |-> FALSE, last_error |-> ListOf(err)]
ErrorBody(msg) == [error |-> TRUE, message |-> msg]
Response(status, body) == [status |-> status, body |-> body]

\* A variant that also retries on the authorization failure -6.
H_Recoverable_Wide(err) == err[1] \in {-10005, -10003, -6}

\* `err[0] in (-10005, -10003)`
H_Recoverable(err) == err[1] \in {-10005, -10003}

\* A variant that never sees the terminal as trade-disabled.
H_TradeDisabled_Never(ti) == FALSE

\* A variant that takes a missing status record for trade-disabled.
H_TradeDisabled_Unknown(ti) == IF ti = None THEN TRUE ELSE ~ti[1]

\* `ti and not ti.trade_allowed`
H_TradeDisabled(ti) == ti # None /\ ~ti[1]

\* do_POST: the body parses and ROUTES maps the path to _h_initialize.
H_DoPost ==
    /\ h_pc = "idle"
    /\ h_pc' = "L200"
    /\ UNCHANGED <<h_result, h_err, h_trace, h_out, h_calls, h_lastError>>
    /\ HFrame

\* Lines 200-201: `if login or server: _prepare_ini(...)`.
H_PrepareFirst ==
    /\ h_pc = "L200"
    /\ h_trace' = IF TruthyLogin(args.login) \/ TruthyServer(args.server)
                  THEN Append(h_trace, "prepare_ini") ELSE h_trace
    /\ h_pc' = "L202"
    /\ UNCHANGED <<h_result, h_err, h_out, h_calls, h_lastError>>
    /\ HFrame

H_AfterDelete(pc) ==
    CASE pc = "L202" -> "L204"
      [] pc = "L217" -> "L218"
      [] pc = "L238" -> "L239"

\* Lines 202, 217, 238: _delete_accounts_dat(); an error of os.remove other
\* than FileNotFoundError leaves the handler and is caught by do_POST.
H_DeleteAccountsDat ==
    /\ h_pc \in {"L202", "L217", "L238"}
    /\ \E outs \in DelRuns :
         IF DeleteAccountsDat(outs).raised
         THEN /\ h_trace' = Append(h_trace, "delete_accounts_dat_raised")
              /\ h_pc' = "L181"
         ELSE /\ h_trace' = Append(h_trace, "delete_accounts_dat")
              /\ h_pc' = H_AfterDelete(h_pc)
    /\ UNCHANGED <<h_result, h_err, h_out, h_calls, h_lastError>>
    /\ HFrame

\* A variant whose failed retry re-enters the classification of line 232.
H_AfterInitialize_Loop(pc, ok) ==
    CASE pc = "L204" -> IF ok THEN "L211" ELSE "L232"
      [] pc = "L219" -> "L220"
      [] pc = "L240" -> IF ok THEN "L241" ELSE "L232"

\* Lines 204, 219, 240: result = mt5.initialize(...).
H_AfterInitialize(pc, ok) ==
    CASE pc = "L204" -> IF ok THEN "L211" ELSE "L232"
      [] pc = "L219" -> "L220"
      [] pc = "L240" -> "L241"

H_Initialize ==
    /\ h_pc \in {"L204", "L219", "L240"}
    /\ LET o == script.init[Slot(h_calls + 1)] IN
         /\ h_result' = o.ok
         /\ h_lastError' = o.err
         /\ h_pc' = H_AfterInitialize(h_pc, o.ok)
    /\ h_calls' = h_calls + 1
    /\ h_trace' = Append(h_trace, "initialize")
    /\ UNCHANGED <<h_err, h_out>>
    /\ HFrame

\* Lines 211-212 and 229-230: the status query after a successful first
\* initialize; without a restart the handler answers {"ok": True}.
H_TerminalInfo ==
    /\ h_pc = "L211"
    /\ h_trace' = Append(h_trace, "terminal_info")
    /\ IF H_TradeDisabled(script.ti[Slot(h_calls)])
       THEN h_pc' = "L214" /\ h_out' = h_out
       ELSE h_pc' = "done" /\ h_out' = Append(h_out, Response(200, OkBody))
    /\ UNCHANGED <<h_result, h_err, h_calls, h_lastError>>
    /\ HFrame

\* Lines 214, 235: mt5.shutdown().
H_Shutdown ==
    /\ h_pc \in {"L214", "L235"}
    /\ h_trace' = Append(h_trace, "shutdown")
    /\ h_pc' = IF h_pc = "L214" THEN "L215" ELSE "L236"
    /\ UNCHANGED <<h_result, h_err, h_out, h_calls, h_lastError>>
    /\ HFrame

\* Lines 215, 236: _kill_terminal().
H_KillTerminal ==
    /\ h_pc \in {"L215", "L236"}
    /\ \E o \in KillOutcomes : h_trace' = h_trace \o KillTerminal(o)
    /\ h_pc' = IF h_pc = "L215" THEN "L216" ELSE "L237"
    /\ UNCHANGED <<h_result, h_err, h_out, h_calls, h_lastError>>
    /\ HFrame

\* A variant that repatches under the condition of line 200.
H_PrepareAgain_Conditional ==
    /\ h_pc \in {"L216", "L237"}
    /\ h_trace' = IF TruthyLogin(args.login) \/ TruthyServer(args.server)
                  THEN Append(h_trace, "prepare_ini") ELSE h_trace
    /\ h_pc' = IF h_pc = "L216" THEN "L217" ELSE "L238"
    /\ UNCHANGED <<h_result, h_err, h_out, h_calls, h_lastError>>
    /\ HFrame

\* Lines 216, 237: _prepare_ini(login=login, server=server), unconditionally.
H_PrepareAgain ==
    /\ h_pc \in {"L216", "L237"}
    /\ h_trace' = Append(h_trace, "prepare_ini")
    /\ h_pc' = IF h_pc = "L216" THEN "L217" ELSE "L238"
    /\ UNCHANGED <<h_result, h_err, h_out, h_calls, h_lastError>>
    /\ HFrame

\* Lines 218, 239: time.sleep(2).
H_Sleep ==
    /\ h_pc \in {"L218", "L239"}
    /\ h_trace' = Append(h_trace, "sleep2")
    /\ h_pc' = IF h_pc = "L218" THEN "L219" ELSE "L240"
    /\ UNCHANGED <<h_result, h_err, h_out, h_calls, h_lastError>>
    /\ HFrame

\* Lines 220-228: after the retry of the trade-disabled path.  On success
\* terminal_info is queried for the log only and {"ok": True} is sent.
H_RestartReport ==
    /\ h_pc = "L220"
    /\ IF h_result
       THEN /\ h_trace' = Append(h_trace, "terminal_info")
            /\ h_out' = Append(h_out, Response(200, OkBody))
            /\ h_err' = h_err
       ELSE /\ h_trace' = h_trace
            /\ h_err' = h_lastError
            /\ h_out' = Append(h_out, Response(200, FailBody(h_lastError)))
    /\ h_pc' = "done"
    /\ UNCHANGED <<h_result, h_calls, h_lastError>>
    /\ HFrame

\* Lines 232-233: err = mt5.last_error(); `if err[0] in (-10005, -10003)`.
H_LastError ==
    /\ h_pc = "L232"
    /\ h_err' = h_lastError
    /\ h_pc' = IF H_Recoverable(h_lastError) THEN "L235" ELSE "L248"
    /\ UNCHANGED <<h_result, h_trace, h_out, h_calls, h_lastError>>
    /\ HFrame

\* A variant without the `return` of line 243: after {"ok": True} the handler
\* falls through to line 248.
H_RetryReport_FallThrough ==
    /\ h_pc = "L241"
    /\ IF h_result
       THEN /\ h_out' = Append(h_out, Response(200, OkBody))
            /\ h_err' = h_err
       ELSE /\ h_err' = h_lastError
            /\ h_out' = h_out
    /\ h_pc' = "L248"
    /\ UNCHANGED <<h_result, h_trace, h_calls, h_lastError>>
    /\ HFrame

\* Lines 241-246: after the retry of the recoverable-code path.
H_RetryReport ==
    /\ h_pc = "L241"
    /\ IF h_result
       THEN /\ h_out' = Append(h_out, Response(200, OkBody))
            /\ h_err' = h_err
            /\ h_pc' = "done"
       ELSE /\ h_err' = h_lastError
            /\ h_out' = h_out
            /\ h_pc' = "L248"
    /\ UNCHANGED <<h_result, h_trace, h_calls, h_lastError>>
    /\ HFrame

\* Line 248: h._send_json({"ok": False, "last_error": list(err)}).
H_SendFailure ==
    /\ h_pc = "L248"
    /\ h_out' = Append(h_out, Response(200, FailBody(h_err)))
    /\ h_pc' = "done"
    /\ UNCHANGED <<h_result, h_err, h_trace, h_calls, h_lastError>>
    /\ HFrame

\* Lines 181-183: do_POST's `except Exception`: 500 with the message.
H_Except ==
    /\ h_pc = "L181"
    /\ h_out' = Append(h_out, Response(500, ErrorBody("Internal error: PermissionError")))
    /\ h_pc' = "done"
    /\ UNCHANGED <<h_result, h_err, h_trace, h_calls, h_lastError>>
    /\ HFrame

HNext ==
    \/ H_DoPost
    \/ H_PrepareFirst
    \/ H_DeleteAccountsDat
    \/ H_Initialize
    \/ H_TerminalInfo
    \/ H_Shutdown
    \/ H_KillTerminal
    \/ H_PrepareAgain
    \/ H_Sleep
    \/ H_RestartReport
    \/ H_LastError
    \/ H_RetryReport
    \/ H_SendFailure
    \/ H_Except

HInit ==
    /\ h_pc = "idle"
    /\ h_result = FALSE
    /\ h_err = None
    /\ h_trace = <<>>
    /\ h_out = <<>>
    /\ h_calls = 0
    /\ h_lastError = NoError

---------------------------------------------------------------------------
\* Object-RPC adapter: MT5Service, one thread per connection, one process-wide
\* mt5 module.  c is the connection whose thread takes the step.

\* `err[0] in (-10005, -10003)`
R_Recoverable(err) == err[1] \in {-10005, -10003}

R_Ops == {"initialize", "account_info"}

\* The connection's thread receives a call of an exposed method.
R_Call(c, op) ==
    /\ r_pc[c] = "idle"
    /\ r_op' = [r_op EXCEPT ![c] = op]
    /\ r_pc' = [r_pc EXCEPT ![c] = IF op = "initialize" THEN "L103" ELSE "L138"]
    /\ UNCHANGED <<r_result, r_err, r_trace, r_ret, r_calls, r_lastError>>
    /\ RFrame

\* Lines 103-104: `if login or server: _delete_accounts_dat()`; an error of
\* os.remove leaves the method and is returned to the caller by rpyc.
R_DeleteFirst(c) ==
    /\ r_pc[c] = "L103"
    /\ IF TruthyLogin(args.login) \/ TruthyServer(args.server)
       THEN \E outs \in DelRuns :
              IF DeleteAccountsDat(outs).raised
              THEN /\ r_trace' = [r_trace EXCEPT ![c] = Append(@, "delete_accounts_dat_raised")]
                   /\ r_pc' = [r_pc EXCEPT ![c] = "done"]
                   /\ r_ret' = [r_ret EXCEPT ![c] = "raised PermissionError"]
              ELSE /\ r_trace' = [r_trace EXCEPT ![c] = Append(@, "delete_accounts_dat")]
                   /\ r_pc' = [r_pc EXCEPT ![c] = "L105"]
                   /\ r_ret' = r_ret
       ELSE /\ r_pc' = [r_pc EXCEPT ![c] = "L107"]
            /\ UNCHANGED <<r_trace, r_ret>>
    /\ UNCHANGED <<r_op, r_result, r_err, r_calls, r_lastError>>
    /\ RFrame

\* Lines 105, 116: _prepare_ini(login=login, server=server).
R_PrepareIni(c) ==
    /\ r_pc[c] \in {"L105", "L116"}
    /\ r_trace' = [r_trace EXCEPT ![c] = Append(@, "prepare_ini")]
    /\ r_pc' = [r_pc EXCEPT ![c] = IF r_pc[c] = "L105" THEN "L107" ELSE "L117"]
    /\ UNCHANGED <<r_op, r_result, r_err, r_ret, r_calls, r_lastError>>
    /\ RFrame

\* Lines 107-109, 118-121: result = mt5.initialize(...); `if result: return True`.
\* o is what the stub does on this call.
R_AfterInitialize(pc, ok) ==
    IF ok THEN "done" ELSE IF pc = "L107" THEN "L111" ELSE "L122"

R_Initialize(c, o) ==
    /\ r_pc[c] \in {"L107", "L118"}
    /\ r_result' = [r_result EXCEPT ![c] = o.ok]
    /\ r_lastError' = o.err
    /\ r_calls' = r_calls + 1
    /\ r_trace' = [r_trace EXCEPT ![c] = Append(@, "initialize")]
    /\ r_pc' = [r_pc EXCEPT ![c] = R_AfterInitialize(r_pc[c], o.ok)]
    /\ r_ret' = [r_ret EXCEPT ![c] = IF o.ok THEN "True" ELSE @]
    /\ UNCHANGED <<r_op, r_err>>
    /\ RFrame

\* Lines 111-112: err = mt5.last_error(); `if err[0] in (-10005, -10003)`.
R_LastError(c) ==
    /\ r_pc[c] = "L111"
    /\ r_err' = [r_err EXCEPT ![c] = r_lastError]
    /\ r_pc' = [r_pc EXCEPT ![c] = IF R_Recoverable(r_lastError) THEN "L114" ELSE "L123"]
    /\ UNCHANGED <<r_op, r_result, r_trace, r_ret, r_calls, r_lastError>>
    /\ RFrame

\* Line 114: mt5.shutdown().
R_Shutdown(c) ==
    /\ r_pc[c] = "L114"
    /\ r_trace' = [r_trace EXCEPT ![c] = Append(@, "shutdown")]
    /\ r_pc' = [r_pc EXCEPT ![c] = "L115"]
    /\ UNCHANGED <<r_op, r_result, r_err, r_ret, r_calls, r_lastError>>
    /\ RFrame

\* Line 115: _kill_terminal().
R_KillTerminal(c) ==
    /\ r_pc[c] = "L115"
    /\ \E o \in KillOutcomes : r_trace' = [r_trace EXCEPT ![c] = @ \o KillTerminal(o)]
    /\ r_pc' = [r_pc EXCEPT ![c] = "L116"]
    /\ UNCHANGED <<r_op, r_result, r_err, r_ret, r_calls, r_lastError>>
    /\ RFrame

\* Line 117: time.sleep(2).
R_Sleep(c) ==
    /\ r_pc[c] = "L117"
    /\ r_trace' = [r_trace EXCEPT ![c] = Append(@, "sleep2")]
    /\ r_pc' = [r_pc EXCEPT ![c] = "L118"]
    /\ UNCHANGED <<r_op, r_result, r_err, r_ret, r_calls, r_lastError>>
    /\ RFrame

\* Lines 122-123: `return False` (after printing the retry's last_error, or
\* directly when the code is not recoverable).
R_ReturnFalse(c) ==
    /\ r_pc[c] \in {"L122", "L123"}
    /\ r_ret' = [r_ret EXCEPT ![c] = "False"]
    /\ r_pc' = [r_pc EXCEPT ![c] = "done"]
    /\ UNCHANGED <<r_op, r_result, r_err, r_trace, r_calls, r_lastError>>
    /\ RFrame

\* Lines 137-141: exposed_account_info: info = mt5.account_info(); None or
\* info._asdict() is returned.
R_AccountInfo(c) ==
    /\ r_pc[c] = "L138"
    /\ \E info \in {"None", "dict"} : r_ret' = [r_ret EXCEPT ![c] = info]
    /\ r_trace' = [r_trace EXCEPT ![c] = Append(@, "account_info")]
    /\ r_pc' = [r_pc EXCEPT ![c] = "done"]
    /\ UNCHANGED <<r_op, r_result, r_err, r_calls, r_lastError>>
    /\ RFrame

\* The steps of exposed_initialize that take no input from the stub.
R_Step(c) ==
    \/ R_DeleteFirst(c)
    \/ R_PrepareIni(c)
    \/ R_LastError(c)
    \/ R_Shutdown(c)
    \/ R_KillTerminal(c)
    \/ R_Sleep(c)
    \/ R_ReturnFalse(c)

RInit ==
    /\ r_pc = [c \in Conns |-> "idle"]
    /\ r_op = [c \in Conns |-> "none"]
    /\ r_result = [c \in Conns |-> FALSE]
    /\ r_err = [c \in Conns |-> None]
    /\ r_trace = [c \in Conns |-> <<>>]
    /\ r_ret = [c \in Conns |-> "none"]
    /\ r_calls = 0
    /\ r_lastError = NoError

---------------------------------------------------------------------------
\* Config Patcher: _prepare_ini (the two files define it identically).
\*
\* A text is a list of lines.  A line is [key, val]: a section header has the
\* header as its key and an empty value, a `key=value` line has both.

Header(h) == [key |-> h, val |-> ""]
KV(k, v) == [key |-> k, val |-> v]

LineSet ==
    {Header("[Experts]"), Header("[Common]"), KV("Enabled", "0"),
     KV("Enabled", "1"), KV("Login", "1"), KV("Server", "a")}

Texts == UNION {[1..n -> LineSet] : n \in 0..MaxLines}

\* f"{login}", f"{server}": str() of the argument.
PyStr(v) ==
    CASE v = 0 -> "0"
      [] v = 123 -> "123"

\* re.sub(r"(?m)^Login=.*", f"Login={login}", text): every line that starts
\* with `key=` gets the new value; `.` stops at the line's end.
SubKey(text, key, v) ==
    [i \in 1..Len(text) |-> IF text[i].key = key THEN KV(key, v) ELSE text[i]]

\* The first line matching ^\[Experts\]; 0 when there is none.
RECURSIVE FirstExperts(_, _)
FirstExperts(text, i) ==
    IF i > Len(text) THEN 0
    ELSE IF text[i].key = "[Experts]" THEN i
    ELSE FirstExperts(text, i + 1)

\* The line whose `0` the pattern (?m)^(\[Experts\].*?^Enabled=)0 with DOTALL
\* matches: `.*?` runs over line ends, so it is the first line `Enabled=0...`
\* anywhere after the first [Experts] header; 0 when there is none.
RECURSIVE FirstEnabled0(_, _)
FirstEnabled0(text, j) ==
    IF j > Len(text) THEN 0
    ELSE IF text[j].key = "Enabled" /\ text[j].val = "0" THEN j
    ELSE FirstEnabled0(text, j + 1)

FlipIndex(text) ==
    IF FirstExperts(text, 1) = 0 THEN 0
    ELSE FirstEnabled0(text, FirstExperts(text, 1) + 1)

\* re.sub(..., r"\g<1>1", text, count=1, flags=re.DOTALL)
FlipExperts(text) ==
    IF FlipIndex(text) = 0 THEN text
    ELSE [text EXCEPT ![FlipIndex(text)] = KV("Enabled", "1")]

\* A variant without the `server is not None` test: it writes Server=None.
PrepareText_AlwaysServer(text, login, server) ==
    FlipExperts(
        SubKey(IF login # None THEN SubKey(text, "Login", PyStr(login[1])) ELSE text,
               "Server", IF server # None THEN server[1] ELSE "None"))

\* Lines 78-85: the three substitutions on the text read from one location.
PrepareText(text, login, server) ==
    LET t1 == IF login # None THEN SubKey(text, "Login", PyStr(login[1])) ELSE text
        t2 == IF server # None THEN SubKey(t1, "Server", server[1]) ELSE t1
    IN  FlipExperts(t2)

\* What the file I/O of one location does: both open() calls and the write
\* succeed; open(.., "r") fails (missing, unreadable); open(.., "w") fails and
\* the file is as before; f.write fails after open(.., "w") truncated the file.
IoOutcomes == {"ok", "read_error", "open_error", "write_error"}

\* One pass of the `for ini_path in _get_ini_paths()` body: try/except
\* Exception around the location's read, substitutions and write.
PrepareOne(text, io, login, server) ==
    CASE io = "ok" -> PrepareText(text, login, server)
      [] io = "write_error" -> <<>>
      [] OTHER -> text

\* A variant without the try/except: the first I/O error leaves the loop and
\* reaches the caller.
RECURSIVE PrepareLoop_Abort(_, _, _, _, _)
PrepareLoop_Abort(files, io, login, server, i) ==
    IF i > Len(files) THEN [files |-> files, raised |-> FALSE]
    ELSE IF io[i] # "ok"
    THEN [files |-> [files EXCEPT ![i] = PrepareOne(files[i], io[i], login, server)],
          raised |-> TRUE]
    ELSE PrepareLoop_Abort([files EXCEPT ![i] = PrepareOne(files[i], io[i], login, server)],
                           io, login, server, i + 1)

\* Lines 74-90: the loop over the locations, from the i-th on; `except
\* Exception` logs the error and the loop goes on, so nothing is raised.
RECURSIVE PrepareLoop(_, _, _, _, _)
PrepareLoop(files, io, login, server, i) ==
    IF i > Len(files) THEN [files |-> files, raised |-> FALSE]
    ELSE PrepareLoop([files EXCEPT ![i] = PrepareOne(files[i], io[i], login, server)],
                     io, login, server, i + 1)

\* _prepare_ini(login=..., server=...).
P_PrepareIni(io) ==
    /\ LET run == PrepareLoop(p_files, io, p_args.login, p_args.server, 1) IN
         /\ p_files' = run.files
         /\ p_raised' = run.raised
    /\ p_prev' = p_files
    /\ p_io' = io
    /\ p_passes' = p_passes + 1
    /\ UNCHANGED p_args
    /\ PFrame

\* No _prepare_ini run is under observation.
PIdle ==
    /\ p_args = [login |-> None, server |-> None]
    /\ p_files = <<>>
    /\ p_prev = <<>>
    /\ p_io = <<>>
    /\ p_passes = 0
    /\ p_raised = FALSE

---------------------------------------------------------------------------
\* Command Dispatcher of the request/response adapter (mt5_server.py): do_POST,
\* the operation table and the handlers other than _h_initialize, which the
\* H_ actions above follow statement by statement.

\* What a capability call can return.
PyNone == [tag |-> "None"]
Unset == [tag |-> "unset"]
Raises == [tag |-> "raise", msg |-> "terminal error"]
Val(tag, v) == [tag |-> tag, v |-> v]

\* Two records of one namedtuple type, as the capability interface returns them.
Namedtuple(values) == [names |-> <<"ticket", "volume">>, values |-> values]
Records == {Namedtuple(<<1, 5>>), Namedtuple(<<2, 5>>)}
RecordSeqs == {<<>>} \cup {<<r>> : r \in Records}
                     \cup {q \in Records \X Records : q[1] # q[2]}

\* r._asdict(): the mapping from each field name to the record's value.
AsDict(r) ==
    [n \in {r.names[k] : k \in 1..Len(r.names)} |->
        r.values[CHOOSE k \in 1..Len(r.names) : r.names[k] = n]]

\* json.dumps of a list.
JsonArray(items) == [array |-> items]

\* A variant that takes an empty sequence for a missing one (`if not result`).
NamedtupleList_Falsy(result) ==
    IF result.tag = "None" \/ result.v = <<>> THEN PyNone
    ELSE Val("list", [i \in 1..Len(result.v) |-> AsDict(result.v[i])])

\* _namedtuple_list
NamedtupleList(result) ==
    IF result.tag = "None" THEN PyNone
    ELSE Val("list", [i \in 1..Len(result.v) |-> AsDict(result.v[i])])

\* ROUTES with, for each handler, the capability function it calls, the shape
\* of its answer and the fields it reads with b[...], in evaluation order.
Route(fn, kind, required) == [fn |-> fn, kind |-> kind, required |-> required]
ROUTES ==
    [p \in {"/initialize", "/shutdown", "/login", "/last_error", "/version",
            "/account_info", "/terminal_info", "/symbols_total", "/symbols_get",
            "/symbol_info", "/symbol_info_tick", "/symbol_select", "/order_send",
            "/order_check", "/order_calc_margin", "/order_calc_profit",
            "/orders_total", "/orders_get", "/positions_total", "/positions_get",
            "/history_orders_total", "/history_orders_get",
            "/history_deals_total", "/history_deals_get", "/copy_rates_from",
            "/copy_rates_from_pos", "/copy_rates_range", "/copy_ticks_from",
            "/copy_ticks_range"} |->
     CASE p = "/initialize" -> Route("initialize", "initialize", <<>>)
       [] p = "/shutdown" -> Route("shutdown", "shutdown", <<>>)
       [] p = "/login" -> Route("login", "login", <<"login">>)
       [] p = "/last_error" -> Route("last_error", "last_error", <<>>)
       [] p = "/version" -> Route("version", "version", <<>>)
       [] p = "/account_info" -> Route("account_info", "record", <<>>)
       [] p = "/terminal_info" -> Route("terminal_info", "record", <<>>)
       [] p = "/symbols_total" -> Route("symbols_total", "total", <<>>)
       [] p = "/symbols_get" -> Route("symbols_get", "list", <<>>)
       [] p = "/symbol_info" -> Route("symbol_info", "record", <<"symbol">>)
       [] p = "/symbol_info_tick" -> Route("symbol_info_tick", "record", <<"symbol">>)
       [] p = "/symbol_select" -> Route("symbol_select", "select", <<"symbol">>)
       [] p = "/order_send" -> Route("order_send", "record", <<>>)
       [] p = "/order_check" -> Route("order_check", "record", <<>>)
       [] p = "/order_calc_margin" ->
            Route("order_calc_margin", "margin", <<"action", "symbol", "volume", "price">>)
       [] p = "/order_calc_profit" ->
            Route("order_calc_profit", "profit",
                  <<"action", "symbol", "volume", "price_open", "price_close">>)
       [] p = "/orders_total" -> Route("orders_total", "total", <<>>)
       [] p = "/orders_get" -> Route("orders_get", "list", <<>>)
       [] p = "/positions_total" -> Route("positions_total", "total", <<>>)
       [] p = "/positions_get" -> Route("positions_get", "list", <<>>)
       [] p = "/history_orders_total" ->
            Route("history_orders_total", "total", <<"date_from", "date_to">>)
       [] p = "/history_orders_get" ->
            Route("history_orders_get", "list", <<"date_from", "date_to">>)
       [] p = "/history_deals_total" ->
            Route("history_deals_total", "total", <<"date_from", "date_to">>)
       [] p = "/history_deals_get" ->
            Route("history_deals_get", "list", <<"date_from", "date_to">>)
       [] p = "/copy_rates_from" ->
            Route("copy_rates_from", "numpy", <<"symbol", "timeframe", "date_from", "count">>)
       [] p = "/copy_rates_from_pos" ->
            Route("copy_rates_from_pos", "numpy", <<"symbol", "timeframe", "start_pos", "count">>)
       [] p = "/copy_rates_range" ->
            Route("copy_rates_range", "numpy", <<"symbol", "timeframe", "date_from", "date_to">>)
       [] p = "/copy_ticks_from" ->
            Route("copy_ticks_from", "numpy", <<"symbol", "date_from", "count", "flags">>)
       [] OTHER ->
            Route("copy_ticks_range", "numpy", <<"symbol", "date_from", "date_to", "flags">>)]

\* ROUTES.get(path)
Known(path) == path \in DOMAIN ROUTES

FieldsOf(required) == {required[k] : k \in 1..Len(required)}

\* The first b[...] of a handler that finds no such key, 0 if every one does.
RECURSIVE FirstMissing(_, _, _)
FirstMissing(required, fields, k) ==
    IF k > Len(required) THEN 0
    ELSE IF required[k] \notin fields THEN k
    ELSE FirstMissing(required, fields, k + 1)

\* str(KeyError(name))
KeyErrorMsg(name) == "'" \o name \o "'"

\* What the stub can return to a handler of the given kind.
Results(kind) ==
    {PyNone, Raises} \cup
    CASE kind = "record" -> {Val("record", r) : r \in Records}
      [] kind = "list" -> {Val("seq", q) : q \in RecordSeqs}
      [] kind = "total" -> {Val("int", 0), Val("int", 2)}
      [] kind \in {"select", "login", "shutdown"} -> {Val("bool", TRUE), Val("bool", FALSE)}
      [] kind \in {"margin", "profit"} -> {Val("float", 0), Val("float", 7)}
      [] kind = "numpy" -> {Val("ndarray", <<1, 2>>)}
      [] kind = "version" -> {Val("tuple", <<500, 3815>>)}
      [] kind = "last_error" -> {Val("tuple", d_lastError)}
      [] OTHER -> {}

\* LastError a call leaves behind: a failure code with a null result.
ErrorsAfter(result) ==
    CASE result.tag = "None" -> {<<c, ErrMsg(c)>> : c \in FailCodes}
      [] result.tag = "raise" -> {d_lastError}
      [] OTHER -> {NoError}

\* {"error": True, "last_error": list(mt5.last_error())}
ErrPayload(err) == [error |-> TRUE, last_error |-> ListOf(err)]

\* _send_numpy for an array: the np.save bytes with their content type.
NumpyResponse(arr) == [status |-> 200, content_type |-> "application/x-numpy", body |-> arr]

\* json.dumps of a capability result placed in a mapping: None becomes null.
JsonOf(result) == IF result.tag = "None" THEN PyNone ELSE result.v

\* Whether the handler raises after its capability call returned:
\* list(mt5.version()) and err[0] do not accept None.
RespondRaises(kind, result) == kind \in {"version", "last_error"} /\ result.tag = "None"
RespondExc(kind) ==
    IF kind = "version" THEN "'NoneType' object is not iterable"
    ELSE "'NoneType' object is not subscriptable"

\* Whether the handler asks mt5.last_error() for its answer.
ReadsLastError(kind, result) ==
    CASE kind \in {"record", "list", "margin", "profit", "numpy"} -> result.tag = "None"
      [] kind = "login" -> result.tag = "None" \/ ~result.v
      [] OTHER -> FALSE

\* The response a handler writes for the result of its capability call.
ResponseFor(kind, result, err) ==
    CASE kind = "record" ->
            IF result.tag = "None" THEN Response(200, ErrPayload(err))
            ELSE Response(200, AsDict(result.v))
      [] kind = "list" ->
            IF NamedtupleList(result).tag = "None" THEN Response(200, ErrPayload(err))
            ELSE Response(200, JsonArray(NamedtupleList(result).v))
      [] kind = "total" -> Response(200, [total |-> JsonOf(result)])
      [] kind = "select" -> Response(200, [ok |-> JsonOf(result)])
      [] kind = "margin" ->
            IF result.tag = "None" THEN Response(200, ErrPayload(err))
            ELSE Response(200, [margin |-> result.v])
      [] kind = "profit" ->
            IF result.tag = "None" THEN Response(200, ErrPayload(err))
            ELSE Response(200, [profit |-> result.v])
      [] kind = "numpy" ->
            IF result.tag = "None" THEN Response(200, ErrPayload(err))
            ELSE NumpyResponse(result.v)
      [] kind = "login" ->
            IF result.tag # "None" /\ result.v THEN Response(200, OkBody)
            ELSE Response(200, FailBody(err))
      [] kind = "version" -> Response(200, [version |-> ListOf(result.v)])
      [] kind = "last_error" ->
            Response(200, [code |-> result.v[1], message |-> result.v[2]])
      [] OTHER -> Response(200, OkBody)

\* The requests a client can post: a path (with trailing slashes already
\* stripped), and a body that is not JSON or is a JSON object with some of the
\* fields its handler reads.
Paths == DOMAIN ROUTES \cup {"/nope"}
BodiesOf(path) ==
    {[json |-> FALSE, fields |-> {}]} \cup
    (IF ~Known(path) THEN {[json |-> TRUE, fields |-> {}]}
     ELSE IF path = "/initialize" THEN {}
     ELSE {[json |-> TRUE, fields |-> f] : f \in SUBSET FieldsOf(ROUTES[path].required)})
Requests ==
    UNION {{[path |-> p, json |-> b.json, fields |-> b.fields] : b \in BodiesOf(p)} : p \in Paths}

\* Writing one response ends do_POST.
D_Send(resp) ==
    /\ d_out' = Append(d_out, resp)
    /\ d_answered' = d_answered + 1
    /\ d_pc' = "idle"

\* The server accepts the next request (HTTPServer serves one at a time).
D_Receive(req) ==
    /\ d_pc = "idle"
    /\ d_received < MaxRequests
    /\ d_req' = req
    /\ d_pc' = "L170"
    /\ d_received' = d_received + 1
    /\ d_out' = <<>>
    /\ d_calls' = <<>>
    /\ d_result' = Unset
    /\ d_exc' = ""
    /\ UNCHANGED <<d_lastError, d_answered, d_failed>>
    /\ DFrame

\* A variant that takes a body it cannot decode for an empty object.
D_ReadJson_Lenient ==
    /\ d_pc = "L170"
    /\ d_pc' = "L175"
    /\ UNCHANGED <<d_req, d_result, d_exc, d_out, d_calls, d_lastError,
                   d_received, d_answered, d_failed>>
    /\ DFrame

\* Lines 170-174: body = self._read_json(), 400 if it does not decode.
D_ReadJson ==
    /\ d_pc = "L170"
    /\ IF d_req.json
       THEN /\ d_pc' = "L175"
            /\ UNCHANGED <<d_out, d_answered>>
       ELSE D_Send(Response(400, ErrorBody("Invalid JSON: Expecting value")))
    /\ UNCHANGED <<d_req, d_result, d_exc, d_calls, d_lastError, d_received, d_failed>>
    /\ DFrame

\* Lines 176-179: handler = ROUTES.get(path), 404 if there is none.
D_Route ==
    /\ d_pc = "L175"
    /\ IF Known(d_req.path)
       THEN /\ d_pc' = "args"
            /\ UNCHANGED <<d_out, d_answered>>
       ELSE D_Send(Response(404, ErrorBody("Unknown endpoint: " \o d_req.path)))
    /\ UNCHANGED <<d_req, d_result, d_exc, d_calls, d_lastError, d_received, d_failed>>
    /\ DFrame

\* Line 180, handler(self, body): the handler evaluates the arguments of its
\* capability call; b[name] raises KeyError when the body has no such field.
D_Args ==
    /\ d_pc = "args"
    /\ LET required == ROUTES[d_req.path].required
           k == FirstMissing(required, d_req.fields, 1)
       IN IF k = 0
          THEN d_pc' = "call" /\ UNCHANGED d_exc
          ELSE d_pc' = "L181" /\ d_exc' = KeyErrorMsg(required[k])
    /\ UNCHANGED <<d_req, d_result, d_out, d_calls, d_lastError,
                   d_received, d_answered, d_failed>>
    /\ DFrame

\* The handler's capability call: the stub returns or raises.
D_Call(result, err) ==
    /\ d_pc = "call"
    /\ d_calls' = Append(d_calls, ROUTES[d_req.path].fn)
    /\ IF result.tag = "raise"
       THEN /\ d_pc' = "L181"
            /\ d_exc' = result.msg
            /\ UNCHANGED <<d_result, d_lastError>>
       ELSE /\ d_pc' = "respond"
            /\ d_result' = result
            /\ d_lastError' = err
            /\ UNCHANGED d_exc
    /\ UNCHANGED <<d_req, d_out, d_received, d_answered, d_failed>>
    /\ DFrame

\* The rest of the handler: the answer for the result.
D_Respond ==
    /\ d_pc = "respond"
    /\ LET kind == ROUTES[d_req.path].kind IN
         IF RespondRaises(kind, d_result)
         THEN /\ d_pc' = "L181"
              /\ d_exc' = RespondExc(kind)
              /\ UNCHANGED <<d_out, d_answered, d_calls>>
         ELSE /\ D_Send(ResponseFor(kind, d_result, d_lastError))
              /\ d_calls' = IF ReadsLastError(kind, d_result)
                            THEN Append(d_calls, "last_error") ELSE d_calls
              /\ UNCHANGED d_exc
    /\ UNCHANGED <<d_req, d_result, d_lastError, d_received, d_failed>>
    /\ DFrame

\* A variant whose except clause does not answer: the exception leaves do_POST
\* and the connection is closed without a response.
D_Except_NoResponse ==
    /\ d_pc = "L181"
    /\ d_pc' = "idle"
    /\ d_failed' = TRUE
    /\ UNCHANGED <<d_req, d_result, d_exc, d_out, d_calls, d_lastError,
                   d_received, d_answered>>
    /\ DFrame

\* Lines 181-183: except Exception as e: 500 "Internal error: {e}".
D_Except ==
    /\ d_pc = "L181"
    /\ D_Send(Response(500, ErrorBody("Internal error: " \o d_exc)))
    /\ d_failed' = TRUE
    /\ UNCHANGED <<d_req, d_result, d_exc, d_calls, d_lastError, d_received>>
    /\ DFrame

\* The server before its first request.
DIdle ==
    /\ d_pc = "idle"
    /\ d_req = [path |-> "", json |-> TRUE, fields |-> {}]
    /\ d_result = Unset
    /\ d_exc = ""
    /\ d_out = <<>>
    /\ d_calls = <<>>
    /\ d_lastError = NoError
    /\ d_received = 0
    /\ d_answered = 0
    /\ d_failed = FALSE

---------------------------------------------------------------------------
\* Conformance run: the same request is served once by each adapter, each
\* against its own instance of the same scripted stub.

Init ==
    /\ args \in [login : Logins, server : Servers]
    /\ script \in Scripts
    /\ HInit
    /\ RInit
    /\ PIdle
    /\ DIdle

RScripted ==
    \/ R_Call(1, "initialize")
    \/ R_Initialize(1, script.init[Slot(r_calls + 1)])
    \/ R_Step(1)

Next == HNext \/ RScripted

Spec == Init /\ [][Next]_vars

\* Threaded run: every connection of the ThreadedServer issues one call; the
\* threads interleave between statements and share the process's mt5 module,
\* whose answers are arbitrary.

InitThreaded ==
    /\ args \in [login : Logins, server : Servers]
    /\ script = [init |-> [k \in 1..2 |-> [ok |-> TRUE, err |-> NoError]],
                 ti |-> [k \in 1..2 |-> None]]
    /\ HInit
    /\ RInit
    /\ PIdle
    /\ DIdle

RThread(c) ==
    \/ \E op \in R_Ops : R_Call(c, op)
    \/ \E o \in InitOutcomes : R_Initialize(c, o)
    \/ R_Step(c)
    \/ R_AccountInfo(c)

NextThreaded == \E c \in Conns : RThread(c)

SpecThreaded == InitThreaded /\ [][NextThreaded]_vars

\* Patcher run on one text: the fixed location holds any text, every file
\* operation succeeds, and _prepare_ini is called twice with the same arguments.

Quiet ==
    /\ args = [login |-> None, server |-> None]
    /\ script = [init |-> [k \in 1..2 |-> [ok |-> TRUE, err |-> NoError]],
                 ti |-> [k \in 1..2 |-> None]]
    /\ HInit
    /\ RInit
    /\ DIdle

InitPatch ==
    /\ Quiet
    /\ p_args \in [login : Logins, server : Servers]
    /\ p_files \in [1..1 -> Texts]
    /\ p_prev = p_files
    /\ p_io = <<"ok">>
    /\ p_passes = 0
    /\ p_raised = FALSE

NextPatch == p_passes < 2 /\ P_PrepareIni(<<"ok">>)

SpecPatch == InitPatch /\ [][NextPatch]_vars

\* Patcher run over the locations: the fixed path and 0..MaxProfiles profile
\* paths, each with its own text and its own file I/O outcome.

\* The texts of a location here: empty, or an [Experts] header and one line.
LocTexts == {<<>>} \cup {<<Header("[Experts]"), l>> : l \in LineSet}

InitLocations ==
    /\ Quiet
    /\ p_args \in [login : Logins, server : Servers]
    /\ \E n \in 1..2 : p_files \in [1..n -> LocTexts]   \* INI_PATH, and the AppData copy if found
    /\ p_prev = p_files
    /\ p_io = [i \in DOMAIN p_files |-> "ok"]
    /\ p_passes = 0
    /\ p_raised = FALSE

NextLocations ==
    /\ p_passes = 0
    /\ \E io \in [DOMAIN p_files -> IoOutcomes] : P_PrepareIni(io)

SpecLocations == InitLocations /\ [][NextLocations]_vars

\* The HTTP server serving requests one after another.
InitDispatch ==
    /\ Quiet
    /\ PIdle

D_Handler ==
    /\ d_pc = "call"
    /\ \E result \in Results(ROUTES[d_req.path].kind) :
         \E err \in ErrorsAfter(result) : D_Call(result, err)

NextDispatch ==
    \/ \E req \in Requests : D_Receive(req)
    \/ D_ReadJson
    \/ D_Route
    \/ D_Args
    \/ D_Handler
    \/ D_Respond
    \/ D_Except

SpecDispatch == InitDispatch /\ [][NextDispatch]_vars

\* One POST /initialize served by the HTTP server: do_POST runs the handler
\* statement after statement until it returns.
SpecHandler == Init /\ [][HNext]_vars /\ WF_vars(HNext)

---------------------------------------------------------------------------
\* Reading the record of a run.

Count(tr, e) == Cardinality({i \in DOMAIN tr : tr[i] = e})

\* The first position of e in tr; Len(tr) + 1 when e does not occur.
RECURSIVE IndexFrom(_, _, _)
IndexFrom(tr, e, i) ==
    IF i > Len(tr) THEN i ELSE IF tr[i] = e THEN i ELSE IndexFrom(tr, e, i + 1)

\* What was done before, and after, the first initialize call.
BeforeFirstInit(tr) == SubSeq(tr, 1, IndexFrom(tr, "initialize", 1) - 1)
AfterFirstInit(tr) == SubSeq(tr, IndexFrom(tr, "initialize", 1) + 1, Len(tr))

\* shutdown, reap, repatch, purge, wait, retry.
RestartCycle ==
    <<"shutdown", "taskkill", "sleep3", "prepare_ini", "delete_accounts_dat",
      "sleep2", "initialize">>

\* The handler ran to its end: no os.remove error left it early.
H_Returned == h_pc = "done" /\ Count(h_trace, "delete_accounts_dat_raised") = 0
R_Returned(c) ==
    r_pc[c] = "done" /\ r_op[c] = "initialize"
        /\ Count(r_trace[c], "delete_accounts_dat_raised") = 0

\* The lifecycle actions of a record: the calls, without the waits.
IsLifecycle(e) == e \notin {"sleep3", "sleep2"}
Lifecycle(tr) == SelectSeq(tr, IsLifecycle)

H_ReportsOk == h_out = <<Response(200, OkBody)>>
H_ReportsFailure(err) == h_out = <<Response(200, FailBody(err))>>

FirstFails == ~script.init[1].ok
FirstCode == script.init[1].err[1]

---------------------------------------------------------------------------
\* C1: in one initialize operation, on either adapter and whatever the stub
\* does, mt5.initialize is called at most twice and _kill_terminal at most once.
C1_BoundedRetry ==
    /\ Count(h_trace, "initialize") <= 2
    /\ Count(h_trace, "taskkill") <= 1
    /\ \A c \in Conns :
         /\ Count(r_trace[c], "initialize") <= 2
         /\ Count(r_trace[c], "taskkill") <= 1

\* Both adapters finished an operation that retried: two calls, one kill each.
C1_Witness ==
    /\ h_pc = "done" /\ Count(h_trace, "initialize") = 2 /\ Count(h_trace, "taskkill") = 1
    /\ r_pc[1] = "done" /\ Count(r_trace[1], "initialize") = 2
    /\ Count(r_trace[1], "taskkill") = 1

\* C2 (as stated): when every initialize call succeeds and every status query
\* reports trading disabled, the request/response adapter makes one restart
\* cycle (one shutdown, one kill, two initialize calls) and reports failure.
C2_StillDisabledReportsFailure ==
    (/\ H_Returned
     /\ script.init[1].ok /\ script.init[2].ok
     /\ script.ti[1] = Some(FALSE) /\ script.ti[2] = Some(FALSE))
    => /\ Count(h_trace, "shutdown") = 1
       /\ Count(h_trace, "taskkill") = 1
       /\ Count(h_trace, "initialize") = 2
       /\ Len(h_out) = 1
       /\ h_out[1].body # OkBody

C3_Hypothesis ==
    /\ script.init[1].ok /\ script.ti[1] = Some(FALSE)
    /\ script.init[2].ok /\ script.ti[2] = Some(TRUE)

\* C3: when the first initialize succeeds with trading disabled and the second
\* succeeds with trading enabled, the request/response adapter performs exactly
\* one restart cycle (shutdown, kill, repatch, purge, wait, one retry) and
\* reports ok: true.  (A run that an os.remove error ended makes no second
\* initialize call, so the claim's hypothesis does not hold of it.)
C3_DisabledThenEnabled ==
    (H_Returned /\ C3_Hypothesis)
    => /\ AfterFirstInit(h_trace) = <<"terminal_info">> \o RestartCycle \o <<"terminal_info">>
       /\ H_ReportsOk

C3_Witness == H_Returned /\ C3_Hypothesis /\ Count(h_trace, "initialize") = 2

C4_Hypothesis == FirstFails /\ FirstCode \notin {-10005, -10003}

\* C4: when the first initialize fails with a code other than -10005 and
\* -10003, either adapter reports failure with no restart cycle: nothing is
\* done after the failing call (no shutdown, kill, patch, purge or second
\* initialize), and the request/response adapter reports the LastError read
\* after that first attempt.
C4_NoRetryOnOtherCode ==
    C4_Hypothesis
    => /\ AfterFirstInit(h_trace) = <<>>
       /\ h_pc = "done" /\ Count(h_trace, "initialize") = 1
            => H_ReportsFailure(script.init[1].err)
       /\ AfterFirstInit(r_trace[1]) = <<>>
       /\ r_pc[1] = "done" /\ Count(r_trace[1], "initialize") = 1
            => r_ret[1] = "False"

C4_Witness ==
    /\ C4_Hypothesis
    /\ h_pc = "done" /\ Count(h_trace, "initialize") = 1
    /\ r_pc[1] = "done" /\ Count(r_trace[1], "initialize") = 1

\* C5 (as stated): when the first initialize fails with code -10005 or -10003,
\* the request/response adapter performs shutdown, kill and settle, patch,
\* purge, grace wait and the single retry, once each and in this order, with
\* no step skipped.
C5_RecoveryOrder ==
    (/\ h_pc = "done" /\ Count(h_trace, "initialize") >= 1
     /\ FirstFails /\ FirstCode \in {-10005, -10003})
    => AfterFirstInit(h_trace) = RestartCycle

\* C6 (as stated): once a restart cycle is taken, the request/response adapter
\* reports ok: true when the retry succeeds with trading enabled (after exactly
\* one kill), and ok: false with the LastError read after the retry when the
\* retry fails or leaves trading disabled.
C6_OnlyRetryOutcome ==
    (H_Returned /\ Count(h_trace, "shutdown") >= 1)
    => /\ (script.init[2].ok /\ script.ti[2] = Some(TRUE))
            => (H_ReportsOk /\ Count(h_trace, "taskkill") = 1)
       /\ (~script.init[2].ok \/ script.ti[2] = Some(FALSE))
            => H_ReportsFailure(script.init[2].err)

\* C7 (as stated): when login or server is provided, the request/response
\* adapter has run the Config Patcher and then the State Purger before the
\* first initialize call.
C7_PatchPurgeBeforeInit ==
    ((args.login # None \/ args.server # None) /\ Count(h_trace, "initialize") >= 1)
    => BeforeFirstInit(h_trace) = <<"prepare_ini", "delete_accounts_dat">>

\* C8 (as stated): with the same arguments and the same stub behaviour, the two
\* adapters perform the same sequence of lifecycle actions and report the same
\* success or failure.
C8_AdaptersAgree ==
    (H_Returned /\ R_Returned(1))
    => /\ Lifecycle(h_trace) = Lifecycle(r_trace[1])
       /\ H_ReportsOk <=> r_ret[1] = "True"

\* The call has taken a lifecycle step and is at a statement from which one
\* more is certain to follow.
R_Mid(c) ==
    /\ r_op[c] = "initialize"
    /\ r_trace[c] # <<>>
    /\ r_pc[c] \in {"L105", "L107", "L114", "L115", "L116", "L117", "L118"}

\* C9 (as stated): two initialize calls on different connections of the
\* object-RPC adapter never overlap: no state has two calls that have both
\* taken a lifecycle step and both still have one to take.
C9_InitializeExcluded ==
    \A c, d \in Conns : c # d => ~(R_Mid(c) /\ R_Mid(d))

\* The call has taken its first lifecycle step and has not returned.
R_InProgress(c) ==
    r_op[c] = "initialize" /\ r_trace[c] # <<>> /\ r_pc[c] # "done"

\* C10 (as stated): while an initialize call of the object-RPC adapter is in
\* progress (after its first lifecycle step, before it returns), no
\* account_info call of another connection reaches the capability interface.
C10_QueriesExcluded ==
    [][\A c, d \in Conns :
         (c # d /\ r_pc[c] = "L138" /\ r_pc'[c] = "done") => ~R_InProgress(d)]_vars

---------------------------------------------------------------------------
\* Reading a patched text.

\* The header of the section that line j belongs to; "" before any header.
RECURSIVE SectionOf(_, _)
SectionOf(text, j) ==
    IF j = 0 THEN ""
    ELSE IF text[j].val = "" THEN text[j].key
    ELSE SectionOf(text, j - 1)

\* The lines that differ between two texts of the same length.
Changed(old, new) == {j \in 1..Len(old) : new[j] # old[j]}

Flipped(old, new) ==
    {j \in 1..Len(old) : old[j] = KV("Enabled", "0") /\ new[j] = KV("Enabled", "1")}

\* C11 (as stated): the Config Patcher changes an `Enabled=0` line to
\* `Enabled=1` only inside the [Experts] section; an `Enabled=0` line of any
\* other section is never modified, also when the Experts section holds no
\* `Enabled=0` line.
C11_FlipOnlyInExperts ==
    p_passes >= 1
    => \A j \in 1..Len(p_prev[1]) :
         (p_prev[1][j] = KV("Enabled", "0") /\ SectionOf(p_prev[1], j) # "[Experts]")
         => p_files[1][j] = p_prev[1][j]

\* C12 (as stated): patching the output of a patch again, with the same
\* arguments, gives the same text.
C12_Idempotent == p_passes = 2 => p_files = p_prev

\* C13 (as stated): a patch with a login and no server leaves every line other
\* than the `Login=` lines unchanged, and the number and order of lines.
C13_Hypothesis == p_passes = 1 /\ p_args.login # None /\ p_args.server = None

C14_PurgeNeverRaises ==
    /\ Count(h_trace, "delete_accounts_dat_raised") = 0
    /\ \A c \in Conns : Count(r_trace[c], "delete_accounts_dat_raised") = 0

\* C15: the Config Patcher is best-effort across locations: when reading or
\* writing one location fails, every other location is still patched (a
\* location that could not be read or opened keeps its text), and nothing is
\* raised to the caller.
C15_BestEffort ==
    p_passes = 1
    => /\ ~p_raised
       /\ \A i \in DOMAIN p_files :
            /\ p_io[i] = "ok"
                 => p_files[i] = PrepareText(p_prev[i], p_args.login, p_args.server)
            /\ p_io[i] \in {"read_error", "open_error"} => p_files[i] = p_prev[i]

\* The first location failed and a later one was rewritten.
C15_Witness ==
    /\ p_passes = 1
    /\ Len(p_files) >= 2
    /\ p_io[1] # "ok"
    /\ p_io[2] = "ok" /\ p_files[2] # p_prev[2]

\* A request has been handled to its end.
D_Done == d_pc = "idle" /\ d_received > 0

\* The body decoded and the path is in the table, but the handler reads a
\* field the body does not have.
D_MissingField ==
    /\ d_req.json
    /\ Known(d_req.path)
    /\ FirstMissing(ROUTES[d_req.path].required, d_req.fields, 1) # 0

\* C16: a POST to a known operation whose JSON body lacks a field the handler
\* requires is answered with a 4xx status, and no capability call is made.
C16_MissingFieldIs4xx ==
    (D_Done /\ D_MissingField)
    => /\ Len(d_out) = 1
       /\ d_out[1].status \in 400..499
       /\ d_calls = <<>>

\* The body is not JSON, or the path is not in the operation table.
D_BadRequest == d_received > 0 /\ (~d_req.json \/ ~Known(d_req.path))

\* C17: a POST with a malformed JSON body or to an unknown path makes no call
\* to the capability interface, the Config Patcher, the State Purger or the
\* Process Reaper, and is answered with a 4xx status.
C17_BadRequestIs4xx ==
    D_BadRequest
    => /\ d_calls = <<>>
       /\ h_trace = <<>>
       /\ p_passes = 0
       /\ d_pc \in {"L170", "L175", "idle"}
       /\ d_pc = "idle" => Len(d_out) = 1 /\ d_out[1].status \in 400..499

\* Both kinds of bad request have been answered: the malformed body with 400
\* first, then the unknown path with 404.
C17_Witness ==
    /\ D_Done
    /\ d_received = 2
    /\ d_failed = FALSE
    /\ d_req.json /\ ~Known(d_req.path)
    /\ d_out = <<Response(404, ErrorBody("Unknown endpoint: /nope"))>>

ListPaths ==
    {"/symbols_get", "/orders_get", "/positions_get", "/history_orders_get",
     "/history_deals_get"}

\* A list-returning query has been answered for a result the stub returned.
D_ListAnswered == D_Done /\ d_req.path \in ListPaths /\ d_result.tag \in {"None", "seq"}

\* C18: for the five list-returning queries, an empty record sequence yields
\* an empty list, a null result yields {error: true, last_error}, and a
\* non-empty sequence yields one flat mapping per record, in the source order.
C18_ListResults ==
    D_ListAnswered
    => /\ Len(d_out) = 1
       /\ d_out[1].status = 200
       /\ d_result.tag = "None" => d_out[1].body = ErrPayload(d_lastError)
       /\ d_result.tag = "seq" =>
            /\ DOMAIN d_out[1].body = {"array"}
            /\ Len(d_out[1].body.array) = Len(d_result.v)
            /\ \A i \in 1..Len(d_result.v) :
                 LET rec == d_result.v[i]
                     map == d_out[1].body.array[i]
                 IN /\ DOMAIN map = FieldsOf(rec.names)
                    /\ \A k \in 1..Len(rec.names) : map[rec.names[k]] = rec.values[k]

\* Two records came back with ticket 2 before ticket 1 and were answered in
\* that order.
C18_Witness ==
    /\ D_ListAnswered
    /\ d_result.tag = "seq"
    /\ Len(d_result.v) = 2
    /\ d_result.v[1].values[1] = 2
    /\ d_out[1].body.array[1].ticket = 2
    /\ d_out[1].body.array[2].ticket = 1

QueryKinds == {"record", "list", "total", "select", "margin", "profit", "numpy"}

\* C19: for every query operation that invokes the capability interface (the
\* *_total counters, symbol_select and the time-series operations included), a
\* null result is answered {error: true, last_error} with the current LastError.
C19_NullIsErrorPayload ==
    (/\ D_Done
     /\ Known(d_req.path)
     /\ ROUTES[d_req.path].kind \in QueryKinds
     /\ d_result.tag = "None")
    => d_out = <<Response(200, ErrPayload(d_lastError))>>

\* C20: an exception raised by a handler or by the capability interface while
\* one POST is dispatched is answered 500 with the exception's message, and the
\* server goes on: every request, also one after a failure, is taken to its
\* end and answered.
C20_ExceptionIs500 ==
    /\ d_pc # "idle" => ENABLED NextDispatch
    /\ d_pc = "idle" =>
         /\ d_answered = d_received
         /\ d_exc # "" => d_out = <<Response(500, ErrorBody("Internal error: " \o d_exc))>>

\* A request was answered 500, and the request after it was answered 200.
C20_Witness ==
    /\ D_Done
    /\ d_failed
    /\ d_received = 2
    /\ d_exc = ""
    /\ Len(d_out) = 1 /\ d_out[1].status = 200

---------------------------------------------------------------------------
\* Reading the time a record takes.

SettleInterval == 3   \* time.sleep(3) of _kill_terminal
GraceInterval == 2    \* time.sleep(2) before the retry

\* The least time an event takes: the waits take their interval, every other
\* call at least no time.
Duration(e) ==
    CASE e = "sleep3" -> SettleInterval
      [] e = "sleep2" -> GraceInterval
      [] OTHER -> 0

\* The least time between the start of event i and the start of event j > i.
RECURSIVE Elapsed(_, _, _)
Elapsed(tr, i, j) ==
    IF i >= j THEN 0 ELSE Duration(tr[i]) + Elapsed(tr, i + 1, j)

\* The records of all operations: the HTTP handler's and each connection's.
AllTraces == {h_trace} \cup {r_trace[c] : c \in Conns}

\* C21: the Process Reaper never raises and always blocks for the settle
\* interval before returning, whatever taskkill did: every kill is followed by
\* the settle wait and then by the caller's next statement (the repatch); and
\* a retried initialize starts no earlier than settle plus grace interval
\* after the kill was issued.
C21_SettleAndGrace ==
    \A tr \in AllTraces :
       /\ \A i \in DOMAIN tr :
            tr[i] = "taskkill"
            => /\ i < Len(tr) /\ tr[i + 1] = "sleep3"
               /\ i + 1 < Len(tr) => tr[i + 2] = "prepare_ini"
       /\ \A i, j \in DOMAIN tr :
            (i < j /\ tr[i] = "taskkill" /\ tr[j] = "initialize")
            => Elapsed(tr, i, j) >= SettleInterval + GraceInterval

\* Both adapters killed the terminal and then retried initialize.
C21_Witness ==
    /\ h_pc = "done"
    /\ IndexFrom(h_trace, "taskkill", 1) < Len(h_trace)
    /\ h_trace[Len(h_trace)] \in {"initialize", "terminal_info"}
    /\ Count(h_trace, "initialize") = 2
    /\ r_pc[1] = "done"
    /\ Count(r_trace[1], "taskkill") = 1
    /\ r_trace[1][Len(r_trace[1])] = "initialize"

\* C22: every invocation of the request/response adapter's initialize handler
\* comes to its end, and has then sent exactly one response (none before),
\* on every path on which no call raises.
C22_ExactlyOneResponse ==
    /\ <>(h_pc = "done")
    /\ [](h_pc # "done" => h_out = <<>>)
    /\ [](H_Returned => Len(h_out) = 1)

\* The longest path was walked to its response: a recoverable code, the
\* restart cycle, a retry that fails too, and the failure sent at line 248.
C22_Witness ==
    /\ H_Returned
    /\ FirstFails /\ Count(h_trace, "taskkill") = 1
    /\ H_ReportsFailure(script.init[2].err)

\* What the handler does before its first initialize call.
H_FirstPreparation ==
    (IF TruthyLogin(args.login) \/ TruthyServer(args.server)
     THEN <<"prepare_ini">> ELSE <<>>) \o <<"delete_accounts_dat">>

\* C23: in the request/response adapter the State Purger has run before every
\* initialize call, the first and the retry, whatever the arguments; the
\* Config Patcher runs before the first call only when login or server is
\* truthy, and before every retry unconditionally.
C23_PurgeBeforeEveryInitialize ==
    \A j \in DOMAIN h_trace :
       h_trace[j] = "initialize"
       => IF j = IndexFrom(h_trace, "initialize", 1)
          THEN BeforeFirstInit(h_trace) = H_FirstPreparation
          ELSE /\ j > 3
               /\ SubSeq(h_trace, j - 3, j - 1)
                    = <<"prepare_ini", "delete_accounts_dat", "sleep2">>

\* A request with login 0 and no server was retried: no patch before the first
\* initialize, a patch before the second.
C23_Witness ==
    /\ h_pc = "done"
    /\ args = [login |-> Some(0), server |-> None]
    /\ Count(h_trace, "initialize") = 2
    /\ Count(h_trace, "prepare_ini") = 1
    /\ Count(h_trace, "delete_accounts_dat") = 2

\* C24: in the request/response adapter, after a successful first initialize a
\* restart cycle is taken only when terminal_info returned a record with
\* trade_allowed false; when it returned None the operation answers ok: true
\* and no restart cycle is taken.
C24_RestartOnlyWhenDisabled ==
    (script.init[1].ok /\ Count(h_trace, "initialize") >= 1)
    => /\ Count(h_trace, "shutdown") >= 1 => script.ti[1] = Some(FALSE)
       /\ (script.ti[1] = None /\ h_pc = "done")
            => /\ H_ReportsOk
               /\ AfterFirstInit(h_trace) = <<"terminal_info">>

\* initialize succeeded, terminal_info returned None, and ok: true was sent.
C24_Witness ==
    /\ h_pc = "done"
    /\ script.init[1].ok
    /\ script.ti[1] = None
    /\ Count(h_trace, "terminal_info") = 1
    /\ Count(h_trace, "taskkill") = 0
    /\ H_ReportsOk

====
